---- MODULE Spec2Model ----
(***************************************************************************)
(* Model of the action-decision-authority rule engine.                     *)
(*                                                                         *)
(*   src/src/core/evaluate.ts     the engine: getNestedValue, the operator *)
(*                                table, matchCondition, conditionsMatch,  *)
(*                                evaluate                                 *)
(*   src/src/react/useEvaluate.ts the memoizing React hook                 *)
(*   src/sample.ts                the custom operator caseInsensitiveEquals *)
(*                                                                         *)
(* JavaScript values are tagged records: k is the kind, r the reference   *)
(* identity of an array / object / regexp, v the payload.  A string is a   *)
(* sequence of one-character strings, so that split, startsWith, endsWith, *)
(* includes and the implicit ToString coercion are computed and not        *)
(* assumed.  A call that may throw returns a record whose field threw      *)
(* says whether an exception escaped.                                      *)
(***************************************************************************)
EXTENDS Integers, Sequences, FiniteSets, TLC

----------------------------------------------------------------------------
(* JavaScript values *)

Undefined == [k |-> "undefined"]
Null == [k |-> "null"]
Num(n) == [k |-> "number", v |-> n]
Str(s) == [k |-> "string", v |-> s]
Bool(b) == [k |-> "boolean", v |-> b]
Arr(r, a) == [k |-> "array", r |-> r, v |-> a]
Obj(r, f) == [k |-> "object", r |-> r, v |-> f]
RegExp(r, s) == [k |-> "regexp", r |-> r, v |-> s]

ReferenceKinds == {"array", "object", "regexp"}

\* typeof x
TypeOf(x) ==
  IF x.k \in {"null", "array", "object", "regexp"} THEN "object" ELSE x.k

\* Array.isArray(x)
IsArray(x) == x.k = "array"

\* a === b : primitives by value, arrays / objects / regexps by identity
StrictEquals(a, b) ==
  IF a.k # b.k THEN FALSE
  ELSE IF a.k \in ReferenceKinds THEN a.r = b.r
  ELSE a = b

----------------------------------------------------------------------------
(* Strings *)

DigitChars == <<"0", "1", "2", "3", "4", "5", "6", "7", "8", "9">>

RECURSIVE NatToString(_)
NatToString(n) ==
  IF n < 10 THEN <<DigitChars[n + 1]>>
  ELSE NatToString(n \div 10) \o <<DigitChars[(n % 10) + 1]>>

\* Number.prototype.toString for the integers of the model
NumberToString(n) ==
  IF n < 0 THEN <<"-">> \o NatToString(0 - n) ELSE NatToString(n)

RECURSIVE JSToString(_)
RECURSIVE Join(_, _)
\* Array.prototype.join(',') : null and undefined elements print as ""
Join(a, i) ==
  IF i > Len(a) THEN <<>>
  ELSE (IF a[i].k \in {"undefined", "null"} THEN <<>> ELSE JSToString(a[i]))
       \o (IF i < Len(a) THEN <<",">> ELSE <<>>)
       \o Join(a, i + 1)

\* The abstract operation ToString(x) that String.prototype.startsWith,
\* endsWith and includes apply to their argument
JSToString(x) ==
  CASE x.k = "undefined" -> <<"u", "n", "d", "e", "f", "i", "n", "e", "d">>
    [] x.k = "null" -> <<"n", "u", "l", "l">>
    [] x.k = "boolean" -> IF x.v THEN <<"t", "r", "u", "e">>
                                 ELSE <<"f", "a", "l", "s", "e">>
    [] x.k = "number" -> NumberToString(x.v)
    [] x.k = "string" -> x.v
    [] x.k = "array" -> Join(x.v, 1)
    [] x.k = "regexp" -> <<"/">> \o x.v \o <<"/">>
    [] OTHER -> <<"[", "o", "b", "j", "e", "c", "t", " ",
                  "O", "b", "j", "e", "c", "t", "]">>

IsPrefix(p, s) == Len(p) <= Len(s) /\ SubSeq(s, 1, Len(p)) = p

IsSuffix(p, s) ==
  Len(p) <= Len(s) /\ SubSeq(s, Len(s) - Len(p) + 1, Len(s)) = p

IsSubstring(p, s) ==
  \E i \in 0..(Len(s) - Len(p)) : SubSeq(s, i + 1, i + Len(p)) = p

LowerChar(c) ==
  CASE c = "A" -> "a"
    [] c = "B" -> "b"
    [] c = "U" -> "u"
    [] OTHER -> c

\* String.prototype.toLowerCase
ToLowerCase(s) == [i \in 1..Len(s) |-> LowerChar(s[i])]

RECURSIVE SplitFrom(_, _, _)
SplitFrom(s, i, cur) ==
  IF i > Len(s) THEN <<cur>>
  ELSE IF s[i] = "." THEN <<cur>> \o SplitFrom(s, i + 1, <<>>)
  ELSE SplitFrom(s, i + 1, Append(cur, s[i]))

\* path.split('.')
Split(s) == SplitFrom(s, 1, <<>>)

----------------------------------------------------------------------------
(* Results of calls that may throw *)

Return(x) == [threw |-> FALSE, val |-> x]
Throw == [threw |-> TRUE, val |-> Undefined]

----------------------------------------------------------------------------
(* Property access and the path resolver *)

LengthKey == <<"l", "e", "n", "g", "t", "h">>

IsDigit(c) == \E d \in 1..10 : DigitChars[d] = c

\* a canonical array index: digits only, no leading zero
IsIndexKey(key) ==
  /\ Len(key) >= 1
  /\ \A i \in 1..Len(key) : IsDigit(key[i])
  /\ (Len(key) > 1 => key[1] # "0")

DigitValue(c) == (CHOOSE d \in 1..10 : DigitChars[d] = c) - 1

RECURSIVE KeyToNat(_)
KeyToNat(key) ==
  IF Len(key) = 0 THEN 0
  ELSE 10 * KeyToNat(SubSeq(key, 1, Len(key) - 1)) + DigitValue(key[Len(key)])

\* prev[key] : a TypeError on null (and undefined), the own property of an
\* object, an index or the length of an array or string, undefined otherwise
GetProperty(prev, key) ==
  CASE prev.k \in {"null", "undefined"} -> Throw
    [] prev.k = "object" ->
         Return(IF key \in DOMAIN prev.v THEN prev.v[key] ELSE Undefined)
    [] prev.k = "array" ->
         IF key = LengthKey THEN Return(Num(Len(prev.v)))
         ELSE IF IsIndexKey(key) /\ KeyToNat(key) < Len(prev.v)
              THEN Return(prev.v[KeyToNat(key) + 1])
         ELSE Return(Undefined)
    [] prev.k = "string" ->
         IF key = LengthKey THEN Return(Num(Len(prev.v)))
         ELSE IF IsIndexKey(key) /\ KeyToNat(key) < Len(prev.v)
              THEN Return(Str(<<prev.v[KeyToNat(key) + 1]>>))
         ELSE Return(Undefined)
    [] OTHER -> Return(Undefined)

RECURSIVE Reduce(_, _, _)
\* keys.reduce((prev, key) => prev !== undefined ? prev[key] : undefined, obj)
Reduce(keys, i, prev) ==
  IF i > Len(keys) THEN Return(prev)
  ELSE IF ~StrictEquals(prev, Undefined)
       THEN LET step == GetProperty(prev, keys[i])
            IN  IF step.threw THEN Throw ELSE Reduce(keys, i + 1, step.val)
       ELSE Reduce(keys, i + 1, Undefined)

getNestedValue(obj, path) == Reduce(Split(path), 1, obj)

----------------------------------------------------------------------------
(* The operator registry *)

Operator ==
  {"equals", "notEquals", "greaterThan", "lessThan", "contains",
   "startsWith", "endsWith", "in"}

\* the module-level table: operator name -> function
DefaultTable ==
  [equals |-> "default.equals", notEquals |-> "default.notEquals",
   greaterThan |-> "default.greaterThan", lessThan |-> "default.lessThan",
   contains |-> "default.contains", startsWith |-> "default.startsWith",
   endsWith |-> "default.endsWith", in |-> "default.in"]

\* Array.prototype.includes(x)
ArrayIncludes(a, x) == \E i \in 1..Len(a) : StrictEquals(a[i], x)

\* String.prototype.includes(x): TypeError on a regular expression,
\* otherwise x is converted to a string
StringIncludes(s, x) ==
  IF x.k = "regexp" THEN Throw ELSE Return(IsSubstring(JSToString(x), s))

\* String.prototype.startsWith(x)
StringStartsWith(s, x) ==
  IF x.k = "regexp" THEN Throw ELSE Return(IsPrefix(JSToString(x), s))

\* String.prototype.endsWith(x)
StringEndsWith(s, x) ==
  IF x.k = "regexp" THEN Throw ELSE Return(IsSuffix(JSToString(x), s))

equals(fact, cond) == Return(StrictEquals(fact, cond))

notEquals(fact, cond) == Return(~StrictEquals(fact, cond))

greaterThan(fact, cond) ==
  Return(TypeOf(fact) = "number" /\ TypeOf(cond) = "number" /\ fact.v > cond.v)

lessThan(fact, cond) ==
  Return(TypeOf(fact) = "number" /\ TypeOf(cond) = "number" /\ fact.v < cond.v)

\* a contains that rejects a fact that is neither string nor array
containsThrowing(fact, cond) ==
  IF TypeOf(fact) = "string" THEN StringIncludes(fact.v, cond)
  ELSE IF IsArray(fact) THEN Return(ArrayIncludes(fact.v, cond))
  ELSE Throw

contains(fact, cond) ==
  IF TypeOf(fact) = "string" THEN StringIncludes(fact.v, cond)
  ELSE IF IsArray(fact) THEN Return(ArrayIncludes(fact.v, cond))
  ELSE Return(FALSE)

startsWith(fact, cond) ==
  IF TypeOf(fact) = "string" THEN StringStartsWith(fact.v, cond)
  ELSE Return(FALSE)

endsWith(fact, cond) ==
  IF TypeOf(fact) = "string" THEN StringEndsWith(fact.v, cond)
  ELSE Return(FALSE)

in(fact, cond) == Return(IsArray(cond) /\ ArrayIncludes(cond.v, fact))

\* the custom operator of sample.ts
caseInsensitiveEquals(fact, cond) ==
  IF TypeOf(fact) = "string" /\ TypeOf(cond) = "string"
  THEN Return(ToLowerCase(fact.v) = ToLowerCase(cond.v))
  ELSE Return(StrictEquals(fact, cond))

\* operatorFn(factValue, conditionValue).  The callers read the value only
\* for its truthiness, so a returned value that is no boolean is given as
\* its truthiness: Object.prototype.toString called as a plain function
\* returns a non-empty string "[object ...]" and Object(factValue, ...)
\* returns an object, both truthy.
Apply(fn, fact, cond) ==
  CASE fn = "default.equals" -> equals(fact, cond)
    [] fn = "default.notEquals" -> notEquals(fact, cond)
    [] fn = "default.greaterThan" -> greaterThan(fact, cond)
    [] fn = "default.lessThan" -> lessThan(fact, cond)
    [] fn = "default.contains" -> contains(fact, cond)
    [] fn = "default.startsWith" -> startsWith(fact, cond)
    [] fn = "default.endsWith" -> endsWith(fact, cond)
    [] fn = "default.in" -> in(fact, cond)
    [] fn = "caseInsensitiveEquals" -> caseInsensitiveEquals(fact, cond)
    [] fn = "Object.prototype.toString" -> Return(TRUE)
    [] fn = "Object" -> Return(TRUE)

\* { ...defaults, ...custom }
Spread(defaults, custom) ==
  [n \in (DOMAIN defaults) \cup (DOMAIN custom) |->
     IF n \in DOMAIN custom THEN custom[n] ELSE defaults[n]]

\* options: [debug |-> Undefined | Bool(b),
\*           customOperators |-> Undefined | Obj(r, name -> function)]
getOperators(options, defaults) ==
  IF options.customOperators.k # "undefined"
  THEN Spread(defaults, options.customOperators.v)
  ELSE defaults

\* the members the table inherits: it is a plain object, an object literal
\* or the result of a spread, so its prototype is Object.prototype
ObjectPrototype ==
  ("toString" :> "Object.prototype.toString") @@ ("constructor" :> "Object")

\* operators[name] : an own key of the table, else a member inherited from
\* Object.prototype, else undefined
Lookup(operators, name) ==
  IF name \in DOMAIN operators THEN operators[name]
  ELSE IF name \in DOMAIN ObjectPrototype THEN ObjectPrototype[name]
  ELSE "undefined"

----------------------------------------------------------------------------
(* The condition matcher and the rule scanner *)

(* A condition is a record [field, operator, value], a group a record      *)
(* [operator, conditions] whose conditions is a sequence, and the          *)
(* conditions of a rule are a condition, a group, or an array              *)
(* [k |-> "array", v |-> sequence].  A result carries the trace of the     *)
(* call: the console lines printed (t = "log" or "warn", printed only in   *)
(* debug mode), and, whatever the mode, the path resolutions (t = "get")   *)
(* and the operator functions invoked (t = "invoke").                      *)

HasField(x, f) == f \in DOMAIN x

Conditions(cs) == [k |-> "array", v |-> cs]

\* Array.isArray(rule.conditions)
IsConditionArray(c) == HasField(c, "k") /\ c.k = "array"

\* cond.operator !== undefined && cond.conditions !== undefined
IsGroup(c) == HasField(c, "operator") /\ HasField(c, "conditions")

Result(threw, val, trace) == [threw |-> threw, val |-> val, trace |-> trace]

GetEvent(c) == [t |-> "get", field |-> c.field]
InvokeEvent(c, fn) == [t |-> "invoke", fn |-> fn, field |-> c.field]
WarnGroup(g) == [t |-> "warn", msg |-> "Unknown group operator", op |-> g.operator]
WarnOperator(c) == [t |-> "warn", msg |-> "not implemented", op |-> c.operator]
LogCondition(c, fact, res) ==
  [t |-> "log", msg |-> "Condition", field |-> c.field, op |-> c.operator,
   factValue |-> fact, value |-> c.value, result |-> res]
LogRule(rule) == [t |-> "log", msg |-> "Evaluating rule", action |-> rule.action]
LogMatched(rule) == [t |-> "log", msg |-> "Matched rule action", action |-> rule.action]
LogNoMatch == [t |-> "log", msg |-> "No rule matched"]

\* console output happens only in debug mode
IfDebug(debug, event) == IF debug THEN <<event>> ELSE <<>>

\* the branch of matchCondition for a plain condition
matchSimple(c, facts, operators, debug) ==
  LET factValue == getNestedValue(facts, c.field)
      operatorFn == Lookup(operators, c.operator)
  IN  IF factValue.threw THEN Result(TRUE, FALSE, <<GetEvent(c)>>)
      ELSE IF operatorFn = "undefined"
        THEN Result(FALSE, FALSE,
                    <<GetEvent(c)>> \o IfDebug(debug, WarnOperator(c)))
      ELSE LET result == Apply(operatorFn, factValue.val, c.value)
           IN  IF result.threw
               THEN Result(TRUE, FALSE, <<GetEvent(c), InvokeEvent(c, operatorFn)>>)
               ELSE Result(FALSE, result.val,
                      <<GetEvent(c), InvokeEvent(c, operatorFn)>>
                      \o IfDebug(debug, LogCondition(c, factValue.val, result.val)))

RECURSIVE matchCondition(_, _, _, _)
RECURSIVE every(_, _, _, _, _)
RECURSIVE some(_, _, _, _, _)

\* cs.every((c) => matchCondition(c, ...)) from index i on: stops at the
\* first child that is false, an exception of a child escapes
every(cs, i, facts, operators, debug) ==
  IF i > Len(cs) THEN Result(FALSE, TRUE, <<>>)
  ELSE LET r == matchCondition(cs[i], facts, operators, debug)
       IN  IF r.threw \/ ~r.val THEN r
           ELSE LET rest == every(cs, i + 1, facts, operators, debug)
                IN  [rest EXCEPT !.trace = r.trace \o @]

\* cs.some((c) => matchCondition(c, ...)) from index i on: stops at the
\* first child that is true, an exception of a child escapes
some(cs, i, facts, operators, debug) ==
  IF i > Len(cs) THEN Result(FALSE, FALSE, <<>>)
  ELSE LET r == matchCondition(cs[i], facts, operators, debug)
       IN  IF r.threw \/ r.val THEN r
           ELSE LET rest == some(cs, i + 1, facts, operators, debug)
                IN  [rest EXCEPT !.trace = r.trace \o @]

\* a matcher that takes every combinator other than "any" for "all"
matchConditionLax(cond, facts, operators, debug) ==
  IF IsGroup(cond)
  THEN IF cond.operator = "any"
         THEN some(cond.conditions, 1, facts, operators, debug)
       ELSE every(cond.conditions, 1, facts, operators, debug)
  ELSE matchSimple(cond, facts, operators, debug)

matchCondition(cond, facts, operators, debug) ==
  IF IsGroup(cond)
  THEN IF cond.operator = "all"
         THEN every(cond.conditions, 1, facts, operators, debug)
       ELSE IF cond.operator = "any"
         THEN some(cond.conditions, 1, facts, operators, debug)
       ELSE Result(FALSE, FALSE, IfDebug(debug, WarnGroup(cond)))
  ELSE matchSimple(cond, facts, operators, debug)

\* conditionsMatch(rule.conditions, ...): a bare array is an implicit "all"
conditionsMatch(conditions, facts, operators, debug) ==
  IF IsConditionArray(conditions)
  THEN every(conditions.v, 1, facts, operators, debug)
  ELSE matchCondition(conditions, facts, operators, debug)

RECURSIVE scanLast(_, _, _, _, _)
\* a scan that does not stop at the first match: the last match wins
scanLast(rules, i, facts, operators, debug) ==
  IF i > Len(rules) THEN Result(FALSE, Null, IfDebug(debug, LogNoMatch))
  ELSE LET rule == rules[i]
           m == conditionsMatch(rule.conditions, facts, operators, debug)
           rest == scanLast(rules, i + 1, facts, operators, debug)
       IN  IF m.threw THEN Result(TRUE, Undefined, m.trace)
           ELSE IF rest.threw \/ rest.val # Null \/ ~m.val THEN rest
           ELSE Result(FALSE, rule.action, m.trace)

RECURSIVE scanOn(_, _, _, _, _)
\* a scan that returns the first match but still attempts the later rules
scanOn(rules, i, facts, operators, debug) ==
  IF i > Len(rules) THEN Result(FALSE, Null, IfDebug(debug, LogNoMatch))
  ELSE LET rule == rules[i]
           m == conditionsMatch(rule.conditions, facts, operators, debug)
           head == IfDebug(debug, LogRule(rule)) \o m.trace
           rest == scanOn(rules, i + 1, facts, operators, debug)
       IN  IF m.threw THEN Result(TRUE, Undefined, head)
           ELSE IF ~m.val THEN [rest EXCEPT !.trace = head \o @]
           ELSE IF rest.threw THEN [rest EXCEPT !.trace = head \o @]
           ELSE Result(FALSE, rule.action,
                       head \o IfDebug(debug, LogMatched(rule)) \o rest.trace)

RECURSIVE scan(_, _, _, _, _)
\* the for loop of evaluate from rule i on
scan(rules, i, facts, operators, debug) ==
  IF i > Len(rules) THEN Result(FALSE, Null, IfDebug(debug, LogNoMatch))
  ELSE LET rule == rules[i]
           m == conditionsMatch(rule.conditions, facts, operators, debug)
           head == IfDebug(debug, LogRule(rule)) \o m.trace
       IN  IF m.threw THEN Result(TRUE, Undefined, head)
           ELSE IF ~m.val
             THEN LET rest == scan(rules, i + 1, facts, operators, debug)
                  IN  [rest EXCEPT !.trace = head \o @]
           ELSE Result(FALSE, rule.action,
                       head \o IfDebug(debug, LogMatched(rule)))

\* options?.debug ?? false
DebugOf(options) ==
  IF options.debug.k = "undefined" THEN FALSE ELSE options.debug.v

\* evaluate(rules, facts, options) reading the module-level table defaults
evaluate(rules, facts, options, defaults) ==
  scan(rules, 1, facts, getOperators(options, defaults), DebugOf(options))

----------------------------------------------------------------------------
(* The React hook *)

RECURSIVE ValueDeepEqual(_, _)
\* isEqual of fast-deep-equal on values: identical, or the same kind with
\* deep-equal contents; references are not compared
ValueDeepEqual(a, b) ==
  IF a.k # b.k THEN FALSE
  ELSE CASE a.k = "array" ->
              /\ Len(a.v) = Len(b.v)
              /\ \A i \in 1..Len(a.v) : ValueDeepEqual(a.v[i], b.v[i])
         [] a.k = "object" ->
              /\ DOMAIN a.v = DOMAIN b.v
              /\ \A key \in DOMAIN a.v : ValueDeepEqual(a.v[key], b.v[key])
         [] a.k = "regexp" -> a.v = b.v
         [] OTHER -> a = b

RECURSIVE NodeDeepEqual(_, _)
\* isEqual on a condition, a group or an array of conditions
NodeDeepEqual(c, d) ==
  IF DOMAIN c # DOMAIN d THEN FALSE
  ELSE IF IsConditionArray(c)
    THEN /\ IsConditionArray(d)
         /\ Len(c.v) = Len(d.v)
         /\ \A i \in 1..Len(c.v) : NodeDeepEqual(c.v[i], d.v[i])
  ELSE IF IsGroup(c)
    THEN /\ c.operator = d.operator
         /\ Len(c.conditions) = Len(d.conditions)
         /\ \A i \in 1..Len(c.conditions) :
              NodeDeepEqual(c.conditions[i], d.conditions[i])
  ELSE /\ c.field = d.field
       /\ c.operator = d.operator
       /\ ValueDeepEqual(c.value, d.value)

\* isEqual on a rule
RuleDeepEqual(r1, r2) ==
  /\ DOMAIN r1 = DOMAIN r2
  /\ r1.action = r2.action
  /\ (HasField(r1, "combination") => r1.combination = r2.combination)
  /\ NodeDeepEqual(r1.conditions, r2.conditions)

\* isEqual(a, b) of fast-deep-equal on the arguments of the hook: a rules
\* array [k |-> "array", r |-> identity, v |-> rules] or a fact store
isEqual(a, b) ==
  \/ a.r = b.r
  \/ IF a.k = "array"
     THEN /\ b.k = "array"
          /\ Len(a.v) = Len(b.v)
          /\ \A i \in 1..Len(a.v) : RuleDeepEqual(a.v[i], b.v[i])
     ELSE ValueDeepEqual(a, b)

\* a memo that compares by identity: every new object replaces ref.current
useIdentityMemo(current, value) == value

\* useDeepCompareMemo(value) after the mount, current being ref.current:
\* the new ref.current, which is also what the hook returns
useDeepCompareMemo(current, value) ==
  IF ~isEqual(current, value) THEN value ELSE current

\* the dependency list of the useMemo call; React compares the entries
\* with Object.is, that is objects by identity
Deps(memoizedRules, memoizedFacts, options) ==
  <<memoizedRules.r, memoizedFacts.r, options.debug>>

----------------------------------------------------------------------------
(* Inputs *)

MaxRules == 3
MaxChildren == 2
MaxDepth == 2

Ku == <<"u">>
Ka == <<"a">>
Kn == <<"n">>
PathU == <<"u">>
PathUA == <<"u", ".", "a">>
PathUAB == <<"u", ".", "a", ".", "b">>
PathUA0 == <<"u", ".", "a", ".", "0">>
PathN == <<"n">>
Paths == {PathU, PathUA, PathUAB, PathUA0, PathN}

EmptyObject == <<>>

FactLeaves ==
  {Null, Num(1), Num(2), Bool(TRUE),
   Str(<<"a">>), Str(<<"a", "b">>), Str(<<"1", "a">>), Str(<<"A">>),
   Arr(3, <<Str(<<"a">>), Num(1)>>), Obj(4, EmptyObject)}

User(x) == Obj(1, Ku :> Obj(2, Ka :> x))

FactStores ==
  {User(x) : x \in FactLeaves}
  \cup {Obj(1, Ku :> Null),
        Obj(1, Ku :> Obj(2, EmptyObject)),
        Obj(1, (Ku :> Obj(2, Ka :> Num(1))) @@ (Kn :> Num(1)))}

ConditionValues ==
  {Undefined, Null, Num(1), Num(2), Bool(TRUE),
   Str(<<>>), Str(<<"a">>), Str(<<"1">>), Str(<<"a", "b">>),
   Arr(5, <<Str(<<"a">>), Num(1)>>), Arr(6, <<Undefined>>),
   RegExp(7, <<"a">>)}

\* the names a condition may carry: the built-ins and one that only a
\* caller's customOperators registers
OperatorNames == Operator \cup {"ciEquals", "toString", "constructor"}

NoOptions == [debug |-> Undefined, customOperators |-> Undefined]
DebugOptions == [debug |-> Bool(TRUE), customOperators |-> Undefined]
\* the options of sample.ts
SampleOptions ==
  [debug |-> Bool(TRUE),
   customOperators |-> Obj(8, "equals" :> "caseInsensitiveEquals")]
ExtendOptions ==
  [debug |-> Bool(FALSE),
   customOperators |-> Obj(9, "ciEquals" :> "caseInsensitiveEquals")]
AllOptions == {NoOptions, DebugOptions, SampleOptions, ExtendOptions}

Cond(f, o, v) == [field |-> f, operator |-> o, value |-> v]
Rule(c, a) == [conditions |-> c, action |-> a]

SimpleConditions ==
  {Cond(f, o, v) : f \in Paths, o \in OperatorNames, v \in ConditionValues}

Action1 == Str(<<"r", "1">>)
Action2 == Str(<<"r", "2">>)
Action3 == Str(<<"r", "3">>)

Input(rules, facts, options) ==
  [rules |-> rules, facts |-> facts, options |-> options]

\* one rule made of one condition, over every path, operator, condition
\* value and fact store
GridInputs ==
  {Input(<<Rule(Conditions(<<c>>), Action1)>>, f, o) :
     c \in SimpleConditions, f \in FactStores,
     o \in {NoOptions, SampleOptions}}

SeqsUpTo(S, n) == UNION {[1..m -> S] : m \in 0..n}

AtomTrue == Cond(PathN, "equals", Num(1))
AtomFalse == Cond(PathN, "equals", Num(2))
AtomDeep == Cond(PathUA, "lessThan", Num(2))
Atoms == {AtomTrue, AtomFalse, AtomDeep}
GroupOperators == {"all", "any", "none"}

AtomSeqs == SeqsUpTo(Atoms, MaxChildren)

Group(op, cs) == [operator |-> op, conditions |-> cs]

\* the child lists that hold one group of G, alone or beside one atom
WithOne(G) ==
  {<<g>> : g \in G}
    \cup {<<x, g>> : x \in Atoms, g \in G}
    \cup {<<g, x>> : g \in G, x \in Atoms}

RECURSIVE Groups(_)
\* the groups nested at most d deep: at most MaxChildren atoms in the
\* innermost group, one group alone or beside one atom in every other
Groups(d) ==
  IF d = 1 THEN {Group(op, cs) : op \in GroupOperators, cs \in AtomSeqs}
  ELSE LET G == Groups(d - 1)
       IN  G \cup {Group(op, cs) : op \in GroupOperators, cs \in WithOne(G)}

Store(u, n) == Obj(1, (Ku :> u) @@ (Kn :> n))

TreeFacts ==
  {Store(Obj(2, Ka :> Num(1)), Num(1)),
   Store(Obj(2, Ka :> Num(2)), Num(2)),
   Store(Null, Num(1))}

TreeInputs ==
  {Input(<<Rule(g, Action1)>>, f, o) :
     g \in Groups(MaxDepth), f \in TreeFacts, o \in {NoOptions}}

RulePool ==
  {Rule(Conditions(<<AtomTrue>>), Action1),
   Rule(Cond(PathUA, "greaterThan", Num(0)), Action2),
   [conditions |-> Conditions(<<AtomTrue, AtomFalse>>), action |-> Action3,
    combination |-> "any"],
   Rule(Group("any", <<AtomFalse, AtomTrue>>), Action2),
   Rule(Conditions(<<>>), Action3),
   Rule(Conditions(<<AtomFalse>>), Action1)}

ScanInputs ==
  {Input(rs, f, o) :
     rs \in SeqsUpTo(RulePool, MaxRules), f \in TreeFacts, o \in AllOptions}


----------------------------------------------------------------------------
(* Inputs of the hook *)

MaxRenders == 3

\* the objects a component passes to the hook: HookRulesCopy and
\* HookFactsCopy are fresh objects with the contents of HookRulesA and
\* HookFactsA, as an object literal in a component body is on every render.
\* evaluate returns on all of them: a render in which it throws ends the
\* component and is not a step of the hook.
HookRulesA ==
  Arr(20, <<Rule(Conditions(<<Cond(PathUA, "in", Arr(21, <<Num(1), Num(3)>>))>>),
                 Action1)>>)
HookRulesCopy ==
  Arr(22, <<Rule(Conditions(<<Cond(PathUA, "in", Arr(23, <<Num(1), Num(3)>>))>>),
                 Action1)>>)
HookRulesB ==
  Arr(24, <<Rule(Conditions(<<Cond(PathUA, "greaterThan", Num(1))>>), Action2)>>)

\* an object that a rule and a fact store both refer to
SharedObject == Obj(32, Ka :> Num(1))
HookRulesShared ==
  Arr(25, <<Rule(Conditions(<<Cond(PathU, "equals", SharedObject)>>), Action3)>>)
HookRules == {HookRulesA, HookRulesCopy, HookRulesB, HookRulesShared}

HookFactsA == Obj(31, Ku :> SharedObject)
HookFactsCopy == Obj(33, Ku :> Obj(34, Ka :> Num(1)))
HookFactsB == Obj(35, Ku :> Obj(36, Ka :> Num(2)))
HookFacts == {HookFactsA, HookFactsCopy, HookFactsB}

HookOptions == {NoOptions, DebugOptions}

----------------------------------------------------------------------------
(* State *)

VARIABLES
  defaultOperatorFunctions,  \* the module-level operator table
  pc,                        \* "ready": evaluate is about to be called
  call,                      \* the arguments of the call
  operators,                 \* the table the latest call resolved
  ret,                       \* what the latest call returned, with its trace
  customSeen,                \* a completed call carried customOperators
  mounted,                   \* the component using the hook is mounted
  refRules,                  \* ref.current of useDeepCompareMemo(rules)
  refFacts,                  \* ref.current of useDeepCompareMemo(facts)
  memoDeps,                  \* the dependencies useMemo stored
  memoValue,                 \* the value useMemo stored
  renders,                   \* number of renders so far
  evalCount,                 \* number of calls of evaluate by the hook
  seen,                      \* the (rules, facts) pairs rendered so far
  lastRender                 \* arguments and outcome of the latest render

engineVars ==
  <<defaultOperatorFunctions, pc, call, operators, ret, customSeen>>
hookVars ==
  <<mounted, refRules, refFacts, memoDeps, memoValue, renders, evalCount,
    seen, lastRender>>
vars == <<engineVars, hookVars>>

NoTable == [n \in {} |-> "undefined"]
NoResult == Result(FALSE, Undefined, <<>>)
NoRules == Arr(0, <<>>)
NoFacts == Obj(0, EmptyObject)
NoDeps == <<0, 0, Undefined>>
NoRender ==
  [rules |-> NoRules, facts |-> NoFacts, options |-> NoOptions,
   invoked |-> FALSE, seenBefore |-> FALSE, returned |-> Undefined]

\* the hook before the component is mounted
Unmounted ==
  /\ mounted = FALSE
  /\ refRules = NoRules
  /\ refFacts = NoFacts
  /\ memoDeps = NoDeps
  /\ memoValue = Undefined

InitHook ==
  /\ Unmounted
  /\ renders = 0
  /\ evalCount = 0
  /\ seen = {}
  /\ lastRender = NoRender

InitWith(inputs) ==
  /\ defaultOperatorFunctions = DefaultTable
  /\ pc = "ready"
  /\ call \in inputs
  /\ operators = NoTable
  /\ ret = NoResult
  /\ customSeen = FALSE
  /\ InitHook

Init ==
  \/ InitWith(GridInputs)
  \/ InitWith(TreeInputs)
  \/ InitWith(ScanInputs)

HasCustomOperators(options) == options.customOperators.k # "undefined"

\* a call that merges the custom operators into the module-level table
\* (Object.assign(defaultOperatorFunctions, options.customOperators))
EvaluateAssign ==
  /\ pc = "ready"
  /\ pc' = "done"
  /\ defaultOperatorFunctions' =
       getOperators(call.options, defaultOperatorFunctions)
  /\ operators' = defaultOperatorFunctions'
  /\ ret' = evaluate(call.rules, call.facts, call.options,
                     defaultOperatorFunctions)
  /\ customSeen' = (customSeen \/ HasCustomOperators(call.options))
  /\ UNCHANGED <<call, hookVars>>

\* the call evaluate(rules, facts, options)
Evaluate ==
  /\ pc = "ready"
  /\ pc' = "done"
  /\ operators' = getOperators(call.options, defaultOperatorFunctions)
  /\ ret' = evaluate(call.rules, call.facts, call.options,
                     defaultOperatorFunctions)
  /\ customSeen' = (customSeen \/ HasCustomOperators(call.options))
  /\ UNCHANGED <<defaultOperatorFunctions, call, hookVars>>

Next == Evaluate

Spec == Init /\ [][Next]_vars

\* a program that calls evaluate again and again
SeqConditions ==
  {Cond(PathUA, o, Str(<<"a">>)) :
     o \in {"equals", "notEquals", "startsWith", "ciEquals"}}

SeqInputs ==
  {Input(<<Rule(c, Action1)>>, User(x), o) :
     c \in SeqConditions, x \in {Str(<<"A">>), Str(<<"a">>), Str(<<"a", "b">>)},
     o \in AllOptions}

InitCalls == InitWith(SeqInputs)

\* the caller prepares the next call
CallAgain(inp) ==
  /\ pc = "done"
  /\ pc' = "ready"
  /\ call' = inp
  /\ UNCHANGED <<defaultOperatorFunctions, operators, ret, customSeen,
                 hookVars>>

NextCalls == Evaluate \/ \E inp \in SeqInputs : CallAgain(inp)

SpecCalls == InitCalls /\ [][NextCalls]_vars

\* a component that renders with useEvaluate(rules, facts, options)
InitRender ==
  /\ defaultOperatorFunctions = DefaultTable
  /\ pc = "done"
  /\ call = Input(<<>>, NoFacts, NoOptions)
  /\ operators = NoTable
  /\ ret = NoResult
  /\ customSeen = FALSE
  /\ InitHook

\* the pair was rendered before, up to deep equality
SeenBefore(rules, facts) ==
  \E p \in seen : isEqual(p[1], rules) /\ isEqual(p[2], facts)

\* one render: useEvaluate(rules, facts, options)
Render(rules, facts, options) ==
  LET memoizedRules ==
        IF mounted THEN useDeepCompareMemo(refRules, rules) ELSE rules
      memoizedFacts ==
        IF mounted THEN useDeepCompareMemo(refFacts, facts) ELSE facts
      deps == Deps(memoizedRules, memoizedFacts, options)
      recompute == ~mounted \/ deps # memoDeps
      r == evaluate(memoizedRules.v, memoizedFacts, options,
                    defaultOperatorFunctions)
      value == IF recompute THEN r.val ELSE memoValue
  IN  /\ renders < MaxRenders
      /\ renders' = renders + 1
      /\ evalCount' = evalCount + (IF recompute THEN 1 ELSE 0)
      /\ seen' = seen \cup {<<rules, facts>>}
      /\ lastRender' =
           [rules |-> rules, facts |-> facts, options |-> options,
            invoked |-> recompute, seenBefore |-> SeenBefore(rules, facts),
            returned |-> value]
      /\ mounted' = TRUE
      /\ refRules' = memoizedRules
      /\ refFacts' = memoizedFacts
      /\ memoDeps' = deps
      /\ memoValue' = value
      /\ IF recompute
         THEN /\ call' = Input(memoizedRules.v, memoizedFacts, options)
              /\ operators' = getOperators(options, defaultOperatorFunctions)
              /\ ret' = r
         ELSE UNCHANGED <<call, operators, ret>>
      /\ UNCHANGED <<defaultOperatorFunctions, pc, customSeen>>

NextRender ==
  \E rules \in HookRules, facts \in HookFacts, options \in HookOptions :
    Render(rules, facts, options)

SpecRender == InitRender /\ [][NextRender]_vars

----------------------------------------------------------------------------
(* Properties *)

Min(S) == CHOOSE x \in S : \A y \in S : x <= y

\* the rule, taken alone, matches the facts of the call
RuleMatches(rule) ==
  LET m == conditionsMatch(rule.conditions, call.facts, operators, FALSE)
  IN  ~m.threw /\ m.val

\* the condition or group, taken alone, matches the facts of the call
CondHolds(c) ==
  LET m == matchCondition(c, call.facts, operators, FALSE)
  IN  ~m.threw /\ m.val

MatchingIndexes == {i \in 1..Len(call.rules) : RuleMatches(call.rules[i])}

Returned == pc = "done" /\ ~ret.threw
Matched == Returned /\ ret.val # Null

\* C1: when evaluate returns an action, some rule matches, and the action
\* is that of the first rule of the sequence that matches: no rule before
\* it matches, and of several matching rules the earliest wins.
FirstMatchPriority ==
  Returned =>
    /\ (ret.val # Null => MatchingIndexes # {})
    /\ (MatchingIndexes # {} =>
          ret.val = call.rules[Min(MatchingIndexes)].action)

FirstMatchWitness ==
  /\ Returned
  /\ Cardinality(MatchingIndexes) >= 2
  /\ Min(MatchingIndexes) > 1
  /\ ret.val = call.rules[Min(MatchingIndexes)].action
  /\ \E j \in MatchingIndexes : call.rules[j].action # ret.val

CombinationOf(rule) ==
  IF HasField(rule, "combination") THEN rule.combination ELSE "all"

\* C2: a rule whose conditions are a bare array matches iff, with
\* combination "any", at least one condition of the array holds and, with
\* combination "all" or none, every condition holds.
CombinationDecidesArray ==
  pc = "done" =>
    \A i \in 1..Len(call.rules) :
      LET rule == call.rules[i]
          cs == rule.conditions.v
      IN  IsConditionArray(rule.conditions) =>
            (RuleMatches(rule) <=>
               IF CombinationOf(rule) = "any"
               THEN \E j \in 1..Len(cs) : CondHolds(cs[j])
               ELSE \A j \in 1..Len(cs) : CondHolds(cs[j]))

RECURSIVE GroupsIn(_)
\* the groups of a condition tree, at every depth
GroupsIn(c) ==
  IF IsGroup(c)
  THEN {c} \cup UNION {GroupsIn(c.conditions[i]) : i \in 1..Len(c.conditions)}
  ELSE {}

CallGroups ==
  UNION {LET c == call.rules[i].conditions
         IN  IF IsConditionArray(c)
             THEN UNION {GroupsIn(c.v[j]) : j \in 1..Len(c.v)}
             ELSE GroupsIn(c) : i \in 1..Len(call.rules)}

\* C3: at every nesting depth an "all" group matches iff every child
\* matches and an "any" group matches iff at least one child matches.
GroupSemantics ==
  pc = "done" =>
    \A g \in CallGroups :
      LET cs == g.conditions
      IN  /\ g.operator = "all" =>
               (CondHolds(g) <=> \A j \in 1..Len(cs) : CondHolds(cs[j]))
          /\ g.operator = "any" =>
               (CondHolds(g) <=> \E j \in 1..Len(cs) : CondHolds(cs[j]))

\* C4: when no rule of the sequence matches the facts (the empty sequence
\* included) evaluate returns null and does not throw.
NoMatchReturnsNull ==
  (pc = "done" /\ MatchingIndexes = {}) => (~ret.threw /\ ret.val = Null)

\* the call has one rule made of one plain condition
IsSingle ==
  /\ Len(call.rules) = 1
  /\ IsConditionArray(call.rules[1].conditions)
  /\ Len(call.rules[1].conditions.v) = 1
  /\ ~IsGroup(call.rules[1].conditions.v[1])

TheCond == call.rules[1].conditions.v[1]
TheFact == getNestedValue(call.facts, TheCond.field)

\* the operator of the condition is a built-in one in this call
BuiltIn ==
  /\ TheCond.operator \in Operator
  /\ operators[TheCond.operator] = DefaultTable[TheCond.operator]

AbsentField ==
  pc = "done" /\ IsSingle /\ BuiltIn /\ ~TheFact.threw /\ TheFact.val = Undefined

\* C5 as stated: under every built-in operator and every condition value a
\* condition on an absent field is false, and evaluate does not throw.
AbsentFieldNeverMatches == AbsentField => (~ret.threw /\ ret.val = Null)

\* C5 as amended: a condition on an absent field never throws; it is false
\* under greaterThan, lessThan, contains, startsWith and endsWith, true under
\* equals exactly when the condition value is undefined, true under
\* notEquals exactly when it is not, and true under in exactly when the
\* condition value is an array that holds undefined.
AbsentFieldMatch ==
  AbsentField =>
    /\ ~ret.threw
    /\ (ret.val # Null) <=>
         \/ TheCond.operator = "equals" /\ TheCond.value = Undefined
         \/ TheCond.operator = "notEquals" /\ TheCond.value # Undefined
         \/ /\ TheCond.operator = "in"
            /\ IsArray(TheCond.value)
            /\ \E i \in 1..Len(TheCond.value.v) : TheCond.value.v[i] = Undefined

AbsentFieldWitness ==
  /\ AbsentField
  /\ TheCond.operator = "contains"
  /\ TheCond.value = Str(<<"a">>)
  /\ ret.val = Null

\* the operands do not fit the operator
Misfit(op, fact, value) ==
  CASE op \in {"greaterThan", "lessThan"} ->
         TypeOf(fact) # "number" \/ TypeOf(value) # "number"
    [] op = "contains" -> TypeOf(fact) # "string" /\ ~IsArray(fact)
    [] op \in {"startsWith", "endsWith"} ->
         TypeOf(fact) # "string" \/ TypeOf(value) # "string"
    [] op = "in" -> ~IsArray(value)
    [] OTHER -> FALSE

\* C6: a built-in operator whose operands do not fit it returns false and
\* does not throw, so that evaluate returns null for the rule made of that
\* one condition.
TypeMismatchIsFalse ==
  (pc = "done" /\ IsSingle /\ BuiltIn /\ ~TheFact.threw
     /\ Misfit(TheCond.operator, TheFact.val, TheCond.value))
  => (~ret.threw /\ ret.val = Null)

RECURSIVE Stored(_, _, _)
\* the value stored at the path: absent from the first step on whose
\* current value is absent or not indexable
Stored(cur, keys, i) ==
  IF i > Len(keys) THEN cur
  ELSE IF cur.k \notin {"object", "array"} THEN Undefined
  ELSE Stored(GetProperty(cur, keys[i]).val, keys, i + 1)

\* C7: getNestedValue never throws, and its result is the value stored at
\* the path, absent once a step meets an absent or not indexable value.
PathResolverTotal ==
  (pc = "done" /\ IsSingle) =>
    /\ ~TheFact.threw
    /\ TheFact.val = Stored(call.facts, Split(TheCond.field), 1)

\* C8: the module-level table is never modified; the table a call resolves
\* is the built-in one overlaid with the customOperators of that call, and
\* a call without customOperators runs on the built-in semantics whatever
\* earlier calls supplied.
CustomOperatorsAreLocal ==
  /\ defaultOperatorFunctions = DefaultTable
  /\ pc = "done" =>
       IF HasCustomOperators(call.options)
       THEN LET custom == call.options.customOperators.v
            IN  /\ DOMAIN operators = Operator \cup DOMAIN custom
                /\ \A n \in DOMAIN custom : operators[n] = custom[n]
                /\ \A n \in Operator \ DOMAIN custom :
                     operators[n] = DefaultTable[n]
       ELSE /\ operators = DefaultTable
            /\ ret = evaluate(call.rules, call.facts, call.options, DefaultTable)

CustomOperatorsWitness ==
  /\ pc = "done"
  /\ customSeen
  /\ ~HasCustomOperators(call.options)
  /\ call.rules[1].conditions.operator = "equals"
  /\ call.facts = User(Str(<<"A">>))
  /\ ret.val = Null

\* the number of pairs of a set of (rules, facts) pairs that are distinct
\* by deep equality
DistinctPairs(pairs) ==
  Cardinality({{q \in pairs : isEqual(p[1], q[1]) /\ isEqual(p[2], q[2])} :
                 p \in pairs})

AffixNeedsTwoStrings ==
  (pc = "done" /\ IsSingle /\ BuiltIn /\ ~TheFact.threw
     /\ TheCond.operator \in {"startsWith", "endsWith"})
  => /\ ~ret.threw
     /\ (ret.val # Null) <=>
          /\ TypeOf(TheFact.val) = "string"
          /\ TypeOf(TheCond.value) = "string"
          /\ IF TheCond.operator = "startsWith"
             THEN IsPrefix(TheCond.value.v, TheFact.val.v)
             ELSE IsSuffix(TheCond.value.v, TheFact.val.v)

-----------------------------------------------------------------------------
(* Unknown names, scan order, cache coherence and empty lists *)

\* the events of kind t in a trace
EventsOf(trace, t) == {i \in 1..Len(trace) : trace[i].t = t}

\* the operator name of the single condition is no key of the resolved table
Unregistered == TheCond.operator \notin DOMAIN operators

\* C11: a condition whose operator name is not registered in the resolved
\* operator table is false on every fact store: evaluate does not throw, the
\* rule made of it does not match, and no operator function is invoked.
UnknownOperatorIsFalse ==
  (pc = "done" /\ IsSingle /\ Unregistered) =>
    /\ ~ret.threw
    /\ ret.val = Null
    /\ EventsOf(ret.trace, "invoke") = {}

\* the group's combinator is neither "all" nor "any"
UnknownCombinator(c) == IsGroup(c) /\ c.operator \notin {"all", "any"}

\* the conditions of the only rule of the call
TheConditions == call.rules[1].conditions

\* evaluate returned null, and resolved no path and invoked no operator
NothingEvaluated ==
  /\ ~ret.threw
  /\ ret.val = Null
  /\ EventsOf(ret.trace, "get") = {}
  /\ EventsOf(ret.trace, "invoke") = {}

\* C12: a group whose combinator is neither "all" nor "any" is false on
\* every fact store and for every list of children, none of its children is
\* evaluated and nothing is thrown: a rule made of it, of an "all" group
\* that starts with it, or of an "any" group that holds it alone, does not
\* match, and evaluate resolves no path and invokes no operator.
UnknownGroupIsFalse ==
  (pc = "done" /\ Len(call.rules) = 1 /\ IsGroup(TheConditions)) =>
    LET g == TheConditions
        cs == g.conditions
    IN  /\ UnknownCombinator(g) => NothingEvaluated
        /\ (g.operator = "all" /\ cs # <<>> /\ UnknownCombinator(cs[1]))
             => NothingEvaluated
        /\ (g.operator = "any" /\ Len(cs) = 1 /\ UnknownCombinator(cs[1]))
             => NothingEvaluated

\* evaluate has returned on a rule made of a group of unknown combinator,
\* on facts where the group's first child, evaluated, would throw
UnknownGroupWitness ==
  /\ pc = "done" /\ Len(call.rules) = 1
  /\ UnknownCombinator(TheConditions)
  /\ TheConditions.conditions # <<>>
  /\ matchCondition(TheConditions.conditions[1], call.facts, operators, FALSE).threw
  /\ NothingEvaluated

\* what attempting rule i alone prints, resolves and invokes
Attempt(i) ==
  LET debug == DebugOf(call.options)
      rule == call.rules[i]
  IN  IfDebug(debug, LogRule(rule))
        \o conditionsMatch(rule.conditions, call.facts, operators, debug).trace

RECURSIVE Attempts(_)
\* the attempts of rules 1..k, in sequence order
Attempts(k) == IF k = 0 THEN <<>> ELSE Attempts(k - 1) \o Attempt(k)

\* the rules at which a scan ends: those that match or throw
StopIndexes ==
  {i \in 1..Len(call.rules) :
     LET m == conditionsMatch(call.rules[i].conditions, call.facts, operators, FALSE)
     IN  m.threw \/ m.val}

\* C13: evaluate attempts the rules strictly in sequence order and attempts
\* no rule after the one that matches: what the call resolved, invoked and
\* printed is exactly the attempts of the rules up to the first that
\* matches (then the match diagnostic in debug mode) and nothing of a later
\* rule; the "No rule matched" diagnostic is printed only as the last line
\* after the attempts of all the rules, none of which matched.
ScanOrder ==
  pc = "done" =>
    LET debug == DebugOf(call.options)
        n == Len(call.rules)
    IN  IF StopIndexes = {}
        THEN /\ ret.val = Null
             /\ ret.trace = Attempts(n) \o IfDebug(debug, LogNoMatch)
        ELSE LET k == Min(StopIndexes)
             IN  /\ ret.trace =
                      Attempts(k) \o
                        (IF ret.threw THEN <<>>
                         ELSE IfDebug(debug, LogMatched(call.rules[k])))
                 /\ \A j \in 1..Len(ret.trace) : ret.trace[j] # LogNoMatch

\* evaluate returned, in debug mode, the action of a rule that is not the
\* first, no rule before it having matched, and a rule after it would have
\* thrown had it been attempted
ScanOrderWitness ==
  /\ Returned /\ DebugOf(call.options)
  /\ MatchingIndexes # {} /\ Min(MatchingIndexes) > 1
  /\ \E j \in 1..Len(call.rules) :
       /\ j > Min(MatchingIndexes)
       /\ conditionsMatch(call.rules[j].conditions, call.facts, operators, FALSE).threw

\* evaluate(rules, facts, options) called directly with the arguments of
\* the latest render
DirectCall ==
  evaluate(lastRender.rules.v, lastRender.facts, lastRender.options,
           defaultOperatorFunctions)

\* C14: whatever the sequence of renders, the value a render of useEvaluate
\* returns is the value a direct call of evaluate with that render's rules,
\* facts and options returns; no stale result is returned.
CacheCoherent ==
  mounted => (~DirectCall.threw /\ lastRender.returned = DirectCall.val)

\* rule i of the call has an empty array of conditions
EmptyRule(i) ==
  /\ IsConditionArray(call.rules[i].conditions)
  /\ call.rules[i].conditions.v = <<>>

\* no rule before rule i matches the facts of the call
NoEarlierMatch(i) == \A j \in MatchingIndexes : j >= i

\* C15: a rule whose conditions is an empty array matches every fact store,
\* so evaluate returns its action whenever no earlier rule matched; an "all"
\* group without children is true and an "any" group without children is
\* false.
EmptyListsMatch ==
  pc = "done" =>
    /\ \A i \in 1..Len(call.rules) :
         (EmptyRule(i) /\ NoEarlierMatch(i))
           => (~ret.threw /\ ret.val = call.rules[i].action)
    /\ (Len(call.rules) = 1 /\ IsGroup(TheConditions)
          /\ TheConditions.conditions = <<>>) =>
         /\ TheConditions.operator = "all" =>
              (~ret.threw /\ ret.val = call.rules[1].action)
         /\ TheConditions.operator = "any" => (~ret.threw /\ ret.val = Null)

=============================================================================
